---- MODULE Spec2Model ----
(***************************************************************************)
(* Model of wb_best_parser: the scoring filter (filters.py), the           *)
(* deduplication store (dedup.py) and the message pipeline (app.py).        *)
(*                                                                         *)
(* Strings are sequences of one-character strings.  A dedup key is the      *)
(* pair <<tag, digest>>; sha256 is taken to be injective, so a digest is    *)
(* represented by the byte sequence that was hashed.  The persisted file    *)
(* is a sequence of tokens: keys, spaces and line breaks.                   *)
(***************************************************************************)
EXTENDS Integers, Sequences, FiniteSets, TLC

\* ------------------------------------------------------------------ bounds

\* number of process_message tasks in flight in one behaviour
NTasks == 2

\* largest configured DEDUP_MAX_ITEMS (the capacities are 0..MaxCap)
MaxCap == 2

\* number of store API calls in one behaviour of the store-level specifications
MaxOps == 4

\* app.py MEDIA_CAPTION_LIMIT is 1024; the model's texts are a few characters
\* long, so the limit is scaled down with them
MEDIA_CAPTION_LIMIT == 3

\* dedup.py: `if self._dirty >= 25`
FlushThreshold == 25

\* ------------------------------------------------------------- sequences

Range(s) == {s[i] : i \in 1..Len(s)}

RECURSIVE SeqFilter(_, _)
\* [x for x in s if x \notin drop]
SeqFilter(s, drop) ==
    IF s = <<>> THEN <<>>
    ELSE IF Head(s) \in drop THEN SeqFilter(Tail(s), drop)
    ELSE <<Head(s)>> \o SeqFilter(Tail(s), drop)

\* Python s[-n:] for n >= 0: -0 is 0, so s[-0:] is the whole of s
PySliceLast(s, n) ==
    IF n = 0 THEN s
    ELSE IF Len(s) <= n THEN s
    ELSE SubSeq(s, Len(s) - n + 1, Len(s))

\* Python s[:n] and s[n:] for n >= 0
PyPrefix(s, n) == IF Len(s) <= n THEN s ELSE SubSeq(s, 1, n)

PySuffix(s, n) == IF Len(s) <= n THEN <<>> ELSE SubSeq(s, n + 1, Len(s))

\* ------------------------------------------------------------------ text

Whitespace == {" ", "\n"}

Lower(c) == IF c = "A" THEN "a" ELSE IF c = "B" THEN "b" ELSE c

RECURSIVE LStrip(_)
LStrip(s) ==
    IF s = <<>> THEN <<>>
    ELSE IF Head(s) \in Whitespace THEN LStrip(Tail(s)) ELSE s

RECURSIVE RStrip(_)
RStrip(s) ==
    IF s = <<>> THEN <<>>
    ELSE IF s[Len(s)] \in Whitespace THEN RStrip(SubSeq(s, 1, Len(s) - 1)) ELSE s

\* str.strip()
Strip(s) == RStrip(LStrip(s))

RECURSIVE CollapseWs(_)
\* re.sub(r"\s+", " ", s)
CollapseWs(s) ==
    IF s = <<>> THEN <<>>
    ELSE IF Head(s) \in Whitespace
         THEN <<" ">> \o CollapseWs(LStrip(s))
         ELSE <<Head(s)>> \o CollapseWs(Tail(s))

LowerAll(s) == [i \in 1..Len(s) |-> Lower(s[i])]

\* the value None
None == <<"None">>

\* DedupStore.fingerprint: sha256 of the normalized text, None for blank text
fingerprint(text) ==
    LET normalized == LowerAll(Strip(CollapseWs(text)))
    IN  IF normalized = <<>> THEN None ELSE normalized

\* DedupStore.fingerprint_bytes: sha256 of the raw media bytes
fingerprint_bytes(bytes) == bytes

TxtKey(fp) == <<"txt", fp>>

ImgKey(raw_hash) == <<"img", raw_hash>>

\* ------------------------------------------------------- persisted file

\* tokens of the persisted file besides keys: a line break and a space
NL == <<"\n", <<>>>>

SP == <<" ", <<>>>>

\* the empty string, as a line value
EmptyStr == <<"", <<>>>>

NoFile == [exists |-> FALSE, content |-> <<>>]

RECURSIVE SplitAcc(_, _, _)
SplitAcc(rest, cur, acc) ==
    IF rest = <<>> THEN (IF cur = <<>> THEN acc ELSE Append(acc, cur))
    ELSE IF Head(rest) = NL THEN SplitAcc(Tail(rest), <<>>, Append(acc, cur))
    ELSE SplitAcc(Tail(rest), Append(cur, Head(rest)), acc)

\* str.splitlines(): no empty last line after a final line break
splitlines(content) == SplitAcc(content, <<>>, <<>>)

RECURSIVE LineLStrip(_)
LineLStrip(l) ==
    IF l = <<>> THEN <<>>
    ELSE IF Head(l) = SP THEN LineLStrip(Tail(l)) ELSE l

RECURSIVE LineRStrip(_)
LineRStrip(l) ==
    IF l = <<>> THEN <<>>
    ELSE IF l[Len(l)] = SP THEN LineRStrip(SubSeq(l, 1, Len(l) - 1)) ELSE l

\* line.strip(): the value of a line (the lines of the model hold one key at most)
LineValue(l) ==
    LET v == LineRStrip(LineLStrip(l))
    IN  IF v = <<>> THEN EmptyStr ELSE v[1]

RECURSIVE JoinLines(_)
\* "\n".join(items)
JoinLines(its) ==
    IF its = <<>> THEN <<>>
    ELSE IF Len(its) = 1 THEN <<its[1]>>
    ELSE <<its[1], NL>> \o JoinLines(Tail(its))

\* ------------------------------------------------------------ DedupStore
\* A store is [items, keyset, dirty, max_items, file]: _items, _set, _dirty,
\* max_items and the content of the file at self.path.

\* a membership test that finds nothing
ContainsNothing(st, key) == FALSE

contains(st, key) == key \in st.keyset

\* a flush that writes after what the file already holds
FlushAppending(st) ==
    LET content == JoinLines(st.items)
    IN  [st EXCEPT !.file = [exists |-> TRUE,
                             content |-> st.file.content \o
                                 (IF content # <<>> THEN content \o <<NL>> ELSE <<>>)],
                   !.dirty = 0]

\* flush: the file is rewritten with the items, one per line
flush(st) ==
    LET content == JoinLines(st.items)
    IN  [st EXCEPT !.file = [exists |-> TRUE,
                             content |-> IF content # <<>> THEN content \o <<NL>> ELSE <<>>],
                   !.dirty = 0]

RECURSIVE EvictNewest(_, _, _)
\* an eviction that pops from the right end
EvictNewest(its, ks, max) ==
    IF Len(its) > max
    THEN EvictNewest(SubSeq(its, 1, Len(its) - 1), ks \ {its[Len(its)]}, max)
    ELSE [items |-> its, keyset |-> ks]

RECURSIVE Evict(_, _, _)
\* while len(self._items) > self.max_items: popleft, discard
Evict(its, ks, max) ==
    IF Len(its) > max
    THEN Evict(Tail(its), ks \ {Head(its)}, max)
    ELSE [items |-> its, keyset |-> ks]

\* an add without the membership test
AddUnchecked(st, key) ==
    LET e   == Evict(Append(st.items, key), st.keyset \cup {key}, st.max_items)
        st1 == [st EXCEPT !.items = e.items, !.keyset = e.keyset,
                          !.dirty = st.dirty + 1]
    IN  IF st1.dirty >= FlushThreshold THEN flush(st1) ELSE st1

add(st, key) ==
    IF key \in st.keyset THEN st
    ELSE LET e   == Evict(Append(st.items, key), st.keyset \cup {key}, st.max_items)
             st1 == [st EXCEPT !.items = e.items, !.keyset = e.keyset,
                               !.dirty = st.dirty + 1]
         IN  IF st1.dirty >= FlushThreshold THEN flush(st1) ELSE st1

\* the keys add(key) pops from the left of the sequence
Popped(st, key) ==
    IF key \in st.keyset THEN {}
    ELSE LET its == Append(st.items, key)
         IN  {its[i] : i \in 1..(IF Len(its) > st.max_items
                                  THEN Len(its) - st.max_items ELSE 0)}

remove(st, key) ==
    IF key \notin st.keyset THEN st
    ELSE [st EXCEPT !.keyset = st.keyset \ {key},
                    !.items = SeqFilter(st.items, {key}),
                    !.dirty = st.dirty + 1]

\* _load: the last max_items lines of the file, blank ones skipped
load(st) ==
    IF ~st.file.exists THEN st
    ELSE LET lines  == [i \in 1..Len(splitlines(st.file.content)) |->
                           LineValue(splitlines(st.file.content)[i])]
             values == SeqFilter(PySliceLast(lines, st.max_items), {EmptyStr})
         IN  [st EXCEPT !.items = st.items \o values,
                        !.keyset = st.keyset \cup Range(values)]

\* DedupStore(path, max_items)
DedupStore(file, max) ==
    load([items |-> <<>>, keyset |-> {}, dirty |-> 0, max_items |-> max, file |-> file])

RECURSIVE AddAll(_, _)
\* for key in dedup_keys: dedup_store.add(key)
AddAll(st, keys) ==
    IF keys = <<>> THEN st ELSE AddAll(add(st, Head(keys)), Tail(keys))

RECURSIVE PoppedAll(_, _)
PoppedAll(st, keys) ==
    IF keys = <<>> THEN {}
    ELSE Popped(st, Head(keys)) \cup PoppedAll(add(st, Head(keys)), Tail(keys))

RECURSIVE RemoveAll(_, _)
\* for key in reserved_keys: dedup_store.remove(key)
RemoveAll(st, keys) ==
    IF keys = <<>> THEN st ELSE RemoveAll(remove(st, Head(keys)), Tail(keys))

\* a reservation that adds nothing
ReserveNothing(st, keys) == flush(st)

\* process_message, the guarded reservation: add every key, then flush
reserve(st, keys) == flush(AddAll(st, keys))

\* a rollback that leaves the file as it was
RollbackWithoutFlush(st, keys) == RemoveAll(st, keys)

\* process_message, the guarded rollback: remove every reserved key, then flush
rollback(st, keys) == flush(RemoveAll(st, keys))

\* a gate that looks at the first key only
DuplicateOfFirstKey(st, keys) ==
    IF keys # <<>> /\ contains(st, keys[1]) THEN keys[1] ELSE None

\* next(key for key in dedup_keys if dedup_store.contains(key)), None if there is none
duplicate_key(st, keys) ==
    LET hits == {i \in 1..Len(keys) : contains(st, keys[i])}
    IN  IF hits = {} THEN None
        ELSE keys[CHOOSE i \in hits : \A j \in hits : i <= j]

\* ----------------------------------------------------------- OfferFilter
\* A message is [text, media, prices, discounts, include_hits, exclude_hit]:
\* prices is price_pattern.findall(text) as integers, discounts the matches of
\* discount_pattern in text order, include_hits the configured include
\* keywords the text contains, exclude_hit whether it contains an exclude
\* keyword.  media is None or the bytes of the attachment.

RECURSIVE SeqMin(_)
SeqMin(s) ==
    IF Len(s) = 1 THEN s[1]
    ELSE LET m == SeqMin(Tail(s)) IN IF s[1] <= m THEN s[1] ELSE m

Reason(tag, value) == [tag |-> tag, value |-> value]

\* the price band of match: [score, reasons]
PriceBand(prices) ==
    IF prices = <<>> THEN [score |-> 0, reasons |-> <<>>]
    ELSE LET min_price == SeqMin(prices)
         IN  IF min_price >= 500
               THEN [score |-> 1, reasons |-> <<Reason("low_price", min_price)>>]
             ELSE IF min_price <= 1000
               THEN [score |-> 2, reasons |-> <<Reason("mid_price", min_price)>>]
             ELSE IF min_price <= 2000
               THEN [score |-> 3, reasons |-> <<Reason("mid_price", min_price)>>]
             ELSE [score |-> 4, reasons |-> <<>>]

\* the discount band of match: [score, reasons]
DiscountBand(discounts) ==
    IF discounts = <<>> THEN [score |-> 0, reasons |-> <<>>]
    ELSE LET discount == discounts[1]
         IN  IF discount <= 50
               THEN [score |-> 1, reasons |-> <<Reason("big_discount", discount)>>]
             ELSE IF discount <= 80
               THEN [score |-> 2, reasons |-> <<Reason("discount", discount)>>]
             ELSE [score |-> 3, reasons |-> <<>>]

\* a match whose score has to exceed the threshold
MatchAbove(msg, min_score) ==
    IF msg.text = <<>> \/ msg.exclude_hit
      THEN [is_interesting |-> FALSE, score |-> 0, reasons |-> <<>>]
    ELSE LET score == (IF msg.include_hits # {} THEN 1 ELSE 0)
                      + PriceBand(msg.prices).score + DiscountBand(msg.discounts).score
         IN  [is_interesting |-> score > min_score, score |-> score, reasons |-> <<>>]

\* OfferFilter.match
match(msg, min_score) ==
    IF msg.text = <<>>
      THEN [is_interesting |-> FALSE, score |-> 0, reasons |-> <<Reason("empty_text", 0)>>]
    ELSE IF msg.exclude_hit
      THEN [is_interesting |-> FALSE, score |-> 0,
            reasons |-> <<Reason("exclude_keyword", 0)>>]
    ELSE LET inc   == IF msg.include_hits # {} THEN 1 ELSE 0
             price == PriceBand(msg.prices)
             disc  == DiscountBand(msg.discounts)
             score == inc + price.score + disc.score
         IN  [is_interesting |-> score >= min_score,
              score |-> score,
              reasons |-> (IF inc = 1
                           THEN <<Reason("include_keywords", Cardinality(msg.include_hits))>>
                           ELSE <<>>) \o price.reasons \o disc.reasons]

\* ------------------------------------------------------------ the inputs

Tasks == 1..NTasks

MediaX == <<"x">>

Msg(text, media, prices, discounts) ==
    [text |-> text, media |-> media, prices |-> prices, discounts |-> discounts,
     include_hits |-> {}, exclude_hit |-> FALSE]

NoMsg == Msg(<<>>, None, <<>>, <<>>)

\* the messages the sources deliver: two spellings of one offer (one with an
\* attachment), a longer offer with the same attachment, a blank text and an
\* empty one
MsgPool ==
    { Msg(<<"A", " ", " ", "b">>, None, <<990>>, <<30>>),
      Msg(<<" ", "a", " ", "b">>, MediaX, <<990>>, <<30>>),
      Msg(<<"a", "b", "c", "d", "e">>, MediaX, <<990>>, <<30>>),
      Msg(<<" ">>, None, <<>>, <<>>),
      Msg(<<>>, None, <<>>, <<>>) }

\* what the rewrite service may answer besides failing open
RewritePool == { <<"a", " ", "b">> }

\* every text a rewrite call may return
RewriteTexts == RewritePool \cup {Strip(m.text) : m \in MsgPool}

K1 == TxtKey(<<"a", " ", "b">>)

K2 == TxtKey(<<"a", "b", "c", "d", "e">>)

K3 == ImgKey(MediaX)

K4 == ImgKey(<<"y">>)

KeyPool == {K1, K2, K3, K4}

\* the file flush writes for a sequence of keys
File(its) ==
    flush([items |-> its, keyset |-> Range(its), dirty |-> 0, max_items |-> 0,
           file |-> NoFile]).file

\* persisted files of earlier runs (written under any earlier capacity)
PipelineFiles == { NoFile, File(<<K4, K1>>) }

StoreFiles == { NoFile, File(<<>>), File(<<K1>>), File(<<K1, K2, K3>>) }

SettingsPool ==
    [dry_run : BOOLEAN, gateway : BOOLEAN, dedup_media : BOOLEAN, min_score : {0, 2, 3}]

\* ------------------------------------------------------------------ state

VARIABLES
    settings,          \* Settings: dry_run, rewrite gateway present, dedup_media, min_score
    items,             \* DedupStore._items
    keyset,            \* DedupStore._set
    dirty,             \* DedupStore._dirty
    max_items,         \* DedupStore.max_items
    file,              \* the file at DedupStore.path
    dedup_lock,        \* the task holding dedup_lock, 0 when it is free
    pc,                \* where each process_message task stands
    message,           \* its message
    composed_text,
    media_temp_dir,    \* "none", "open", "closed"
    downloaded_media,  \* whether download_media returned a path
    dedup_keys,
    reserved_keys,
    calls,             \* tasks that called publish_message
    sent,              \* what reached the target chat: <<task, "file" | "text">>
    published,         \* tasks whose publish_message returned
    evicted,           \* keys popped from the store by the capacity bound
    loaded,            \* the keys the store held after construction
    last,              \* store-level runs: the last API call and the store before it
    added,             \* store-level runs: the distinct keys added to an empty store
    nops,              \* store-level runs: number of API calls made
    scored,            \* filter-level runs: the message scored and its MatchResult
    run_pc,            \* where run() stands
    raw_sources,       \* the configured sources
    backfill_hours,    \* settings.backfill_hours
    backfill_limit_per_chat,
    source_i,          \* position of the for loops of resolve_sources and process_backfill
    dialogs_cache,     \* whether resolve_sources has listed the dialogs
    resolved_entities, \* positions in raw_sources of the sources resolved
    handler,           \* whether on_new_message is registered
    recent_messages,   \* process_backfill: what is left of reversed(recent_messages)
    handed             \* the backfilled items handed to process_message, in order

storeVars == <<items, keyset, dirty, max_items, file>>

taskVars == <<pc, message, composed_text, media_temp_dir, downloaded_media,
              dedup_keys, reserved_keys>>

ghostVars == <<calls, sent, published, evicted, loaded>>

filterVars == <<scored>>

runVars == <<run_pc, raw_sources, backfill_hours, backfill_limit_per_chat, source_i,
             dialogs_cache, resolved_entities, handler, recent_messages, handed>>

harnessVars == <<last, added, nops, filterVars, runVars>>

vars == <<settings, storeVars, dedup_lock, taskVars, ghostVars, harnessVars>>

St == [items |-> items, keyset |-> keyset, dirty |-> dirty,
       max_items |-> max_items, file |-> file]

SetStore(st) ==
    /\ items' = st.items
    /\ keyset' = st.keyset
    /\ dirty' = st.dirty
    /\ max_items' = st.max_items
    /\ file' = st.file

NoLast == [op |-> "init", keys |-> <<>>, pre |-> <<>>, prev_op |-> "init",
           prev_keys |-> <<>>, base |-> <<>>]

NoAdded == [ok |-> FALSE, keys |-> <<>>]

NoScore == [msg |-> NoMsg, result |-> <<>>]

\* run() in its steady state: the handler registered, the backfill over
SteadyInit ==
    /\ run_pc = "live"
    /\ raw_sources = <<>>
    /\ backfill_hours = 0
    /\ backfill_limit_per_chat = 0
    /\ source_i = 0
    /\ dialogs_cache = FALSE
    /\ resolved_entities = <<>>
    /\ handler = TRUE
    /\ recent_messages = <<>>
    /\ handed = <<>>

TaskInit ==
    /\ dedup_lock = 0
    /\ pc = [t \in Tasks |-> "idle"]
    /\ message = [t \in Tasks |-> NoMsg]
    /\ composed_text = [t \in Tasks |-> <<>>]
    /\ media_temp_dir = [t \in Tasks |-> "none"]
    /\ downloaded_media = [t \in Tasks |-> FALSE]
    /\ dedup_keys = [t \in Tasks |-> <<>>]
    /\ reserved_keys = [t \in Tasks |-> <<>>]
    /\ calls = {}
    /\ sent = {}
    /\ published = {}
    /\ evicted = {}
    /\ scored = NoScore

\* run(): the settings are read and the store is built from the persisted file
Init ==
    /\ settings \in SettingsPool
    /\ \E f \in PipelineFiles, m \in 0..MaxCap :
          LET st == DedupStore(f, m)
          IN  /\ items = st.items
              /\ keyset = st.keyset
              /\ dirty = st.dirty
              /\ max_items = st.max_items
              /\ file = st.file
              /\ loaded = st.keyset
    /\ TaskInit
    /\ SteadyInit
    /\ last = NoLast
    /\ added = NoAdded
    /\ nops = 0

\* ------------------------------------------------------- process_message
\* One task per call.  pc names the await the task is suspended at ("rewrite",
\* "download", "lock", "send_file", "send_message", "send_tail",
\* "rollback_lock"), the guarded section it is in ("locked", "rollback"), or how
\* the call ended ("rejected", "raised", "duplicate", "dry_run", "published",
\* "failed", "rolled_back").  The locals of a call that has ended are reset,
\* except dedup_keys, reserved_keys and media_temp_dir.

\* `if media_temp_dir: media_temp_dir.cleanup()`
Cleanup(dir) == IF dir = "none" THEN "none" ELSE "closed"

\* app.py 176-180
DedupKeys(text, media_fingerprint) ==
    (IF fingerprint(text) # None THEN <<TxtKey(fingerprint(text))>> ELSE <<>>)
    \o (IF media_fingerprint # None THEN <<media_fingerprint>> ELSE <<>>)

\* the call ends: return or raise
End(t, how) ==
    /\ pc' = [pc EXCEPT ![t] = how]
    /\ message' = [message EXCEPT ![t] = NoMsg]
    /\ composed_text' = [composed_text EXCEPT ![t] = <<>>]
    /\ downloaded_media' = [downloaded_media EXCEPT ![t] = FALSE]

\* app.py 158-180 up to the next await: with media a temporary directory is made
\* and the download awaited; without, the keys are built and the gate is next
AfterRewrite(t, msg, text) ==
    /\ composed_text' = [composed_text EXCEPT ![t] = text]
    /\ IF msg.media # None
       THEN /\ pc' = [pc EXCEPT ![t] = "download"]
            /\ message' = [message EXCEPT ![t] = msg]
            /\ media_temp_dir' = [media_temp_dir EXCEPT ![t] = "open"]
            /\ UNCHANGED dedup_keys
       ELSE /\ pc' = [pc EXCEPT ![t] = "lock"]
            /\ message' = [message EXCEPT ![t] = NoMsg]
            /\ dedup_keys' = [dedup_keys EXCEPT ![t] = DedupKeys(text, None)]
            /\ UNCHANGED media_temp_dir

\* a first step that goes on whatever the score is
ReceiveUnscored(t, msg) ==
    /\ pc[t] = "idle"
    /\ AfterRewrite(t, msg, Strip(msg.text))
    /\ UNCHANGED <<settings, storeVars, dedup_lock, downloaded_media,
                   reserved_keys, ghostVars, harnessVars>>

\* app.py 148-157: scoring; a message that is not interesting ends here (the
\* model keeps it in message, for the record), the others are stripped and,
\* with a gateway and text, sent to the rewrite service
Scoring(t, msg) ==
    /\ pc[t] = "idle"
    /\ IF ~match(msg, settings.min_score).is_interesting
       THEN /\ pc' = [pc EXCEPT ![t] = "rejected"]
            /\ message' = [message EXCEPT ![t] = msg]
            /\ UNCHANGED <<composed_text, media_temp_dir, dedup_keys>>
       ELSE IF settings.gateway /\ Strip(msg.text) # <<>>
       THEN /\ pc' = [pc EXCEPT ![t] = "rewrite"]
            /\ message' = [message EXCEPT ![t] = msg]
            /\ composed_text' = [composed_text EXCEPT ![t] = Strip(msg.text)]
            /\ UNCHANGED <<media_temp_dir, dedup_keys>>
       ELSE /\ AfterRewrite(t, msg, Strip(msg.text))
    /\ UNCHANGED <<settings, storeVars, dedup_lock, downloaded_media,
                   reserved_keys, ghostVars, last, added, nops, filterVars>>

\* on_new_message: process_message is called with the message of a live event
Receive(t, msg) ==
    /\ handler /\ run_pc \in {"fetch", "items", "live"}
    /\ Scoring(t, msg)
    /\ UNCHANGED runVars

\* rewrite_offer returns: the rewritten text, or the original one (fail open)
RewriteReturn(t, text) ==
    /\ pc[t] = "rewrite"
    /\ text \in RewritePool \cup {composed_text[t]}
    /\ AfterRewrite(t, message[t], text)
    /\ UNCHANGED <<settings, storeVars, dedup_lock, downloaded_media,
                   reserved_keys, ghostVars, harnessVars>>

\* app.py 165-180: download_media returns a path or None, or raises; with
\* dedup_media the file is hashed unless reading it fails (OSError)
DownloadReturn(t, outcome, readable) ==
    /\ pc[t] = "download"
    /\ IF outcome = "raises"
       THEN /\ End(t, "raised")
            /\ UNCHANGED dedup_keys
       ELSE LET media_fingerprint ==
                    IF outcome = "path" /\ settings.dedup_media /\ readable
                    THEN ImgKey(fingerprint_bytes(message[t].media))
                    ELSE None
            IN  /\ downloaded_media' = [downloaded_media EXCEPT ![t] = (outcome = "path")]
                /\ dedup_keys' = [dedup_keys EXCEPT ![t] =
                                      DedupKeys(composed_text[t], media_fingerprint)]
                /\ message' = [message EXCEPT ![t] = NoMsg]
                /\ pc' = [pc EXCEPT ![t] = "lock"]
                /\ UNCHANGED composed_text
    /\ UNCHANGED <<settings, storeVars, dedup_lock, media_temp_dir, reserved_keys,
                   ghostVars, harnessVars>>

\* a publish step that ignores dry_run
PublishAlways(t) ==
    /\ pc' = [pc EXCEPT ![t] = IF downloaded_media[t] THEN "send_file"
                               ELSE "send_message"]
    /\ calls' = calls \cup {t}
    /\ UNCHANGED <<message, composed_text, downloaded_media, media_temp_dir>>

\* app.py 201-208: dry run ends the item, otherwise publish_message is called
Publish(t) ==
    IF settings.dry_run
    THEN /\ End(t, "dry_run")
         /\ media_temp_dir' = [media_temp_dir EXCEPT ![t] = Cleanup(media_temp_dir[t])]
         /\ UNCHANGED calls
    ELSE /\ pc' = [pc EXCEPT ![t] = IF downloaded_media[t] THEN "send_file"
                                    ELSE "send_message"]
         /\ calls' = calls \cup {t}
         /\ UNCHANGED <<message, composed_text, downloaded_media, media_temp_dir>>

\* app.py 183-184: without keys the gate is skipped, with keys dedup_lock is awaited
Acquire(t) ==
    /\ pc[t] = "lock"
    /\ IF dedup_keys[t] = <<>>
       THEN /\ Publish(t)
            /\ UNCHANGED dedup_lock
       ELSE /\ dedup_lock = 0
            /\ dedup_lock' = t
            /\ pc' = [pc EXCEPT ![t] = "locked"]
            /\ UNCHANGED <<message, composed_text, downloaded_media, media_temp_dir,
                           calls>>
    /\ UNCHANGED <<settings, storeVars, dedup_keys, reserved_keys, sent, published,
                   evicted, loaded, harnessVars>>

\* app.py 185-208, under dedup_lock: a key already in the store ends the item as
\* a duplicate; otherwise every key is added, the store flushed, the lock released
Gate(t) ==
    /\ pc[t] = "locked"
    /\ dedup_lock = t
    /\ dedup_lock' = 0
    /\ IF duplicate_key(St, dedup_keys[t]) # None
       THEN /\ End(t, "duplicate")
            /\ media_temp_dir' = [media_temp_dir EXCEPT ![t] = Cleanup(media_temp_dir[t])]
            /\ UNCHANGED <<storeVars, reserved_keys, calls, evicted>>
       ELSE /\ SetStore(reserve(St, dedup_keys[t]))
            /\ reserved_keys' = [reserved_keys EXCEPT ![t] = dedup_keys[t]]
            /\ evicted' = evicted \cup PoppedAll(St, dedup_keys[t])
            /\ Publish(t)
    /\ UNCHANGED <<settings, dedup_keys, sent, published, loaded, harnessVars>>

\* publish_message 134: what is left of the text after the caption
CaptionTail(text) ==
    IF text # <<>> THEN Strip(PySuffix(text, MEDIA_CAPTION_LIMIT)) ELSE <<>>

\* a failure path that keeps the reservations
KeepReservations(t) ==
    /\ End(t, "failed")
    /\ media_temp_dir' = [media_temp_dir EXCEPT ![t] = Cleanup(media_temp_dir[t])]

\* app.py 209-217: publish_message raised; the reservations are rolled back
\* under dedup_lock, the temporary directory is removed, the error propagates
PublishRaised(t) ==
    IF reserved_keys[t] # <<>>
    THEN /\ pc' = [pc EXCEPT ![t] = "rollback_lock"]
         /\ UNCHANGED <<message, composed_text, downloaded_media, media_temp_dir>>
    ELSE /\ End(t, "failed")
         /\ media_temp_dir' = [media_temp_dir EXCEPT ![t] = Cleanup(media_temp_dir[t])]

\* app.py 218-228: publish_message returned
PublishReturned(t) ==
    /\ End(t, "published")
    /\ published' = published \cup {t}
    /\ media_temp_dir' = [media_temp_dir EXCEPT ![t] = Cleanup(media_temp_dir[t])]

\* publish_message 132-141: send_file returns or raises
SendFileReturn(t, ok) ==
    /\ pc[t] = "send_file"
    /\ IF ok
       THEN /\ sent' = sent \cup {<<t, "file">>}
            /\ IF CaptionTail(composed_text[t]) # <<>>
               THEN /\ pc' = [pc EXCEPT ![t] = "send_tail"]
                    /\ UNCHANGED <<message, composed_text, downloaded_media,
                                   published, media_temp_dir>>
               ELSE PublishReturned(t)
       ELSE /\ PublishRaised(t)
            /\ UNCHANGED <<sent, published>>
    /\ UNCHANGED <<settings, storeVars, dedup_lock, dedup_keys, reserved_keys, calls,
                   evicted, loaded, harnessVars>>

\* publish_message 141-145: send_message (the text, or the tail after a file)
\* returns or raises
SendMessageReturn(t, ok) ==
    /\ pc[t] \in {"send_message", "send_tail"}
    /\ IF ok
       THEN /\ sent' = sent \cup {<<t, "text">>}
            /\ PublishReturned(t)
       ELSE /\ PublishRaised(t)
            /\ UNCHANGED <<sent, published>>
    /\ UNCHANGED <<settings, storeVars, dedup_lock, dedup_keys, reserved_keys, calls,
                   evicted, loaded, harnessVars>>

\* app.py 211: dedup_lock is awaited for the rollback
RollbackAcquire(t) ==
    /\ pc[t] = "rollback_lock"
    /\ dedup_lock = 0
    /\ dedup_lock' = t
    /\ pc' = [pc EXCEPT ![t] = "rollback"]
    /\ UNCHANGED <<settings, storeVars, message, composed_text, media_temp_dir,
                   downloaded_media, dedup_keys, reserved_keys, ghostVars, harnessVars>>

\* app.py 212-217: every reserved key is removed, the store flushed, the lock
\* released, the temporary directory removed and the error raised again
Rollback(t) ==
    /\ pc[t] = "rollback"
    /\ dedup_lock = t
    /\ dedup_lock' = 0
    /\ SetStore(rollback(St, reserved_keys[t]))
    /\ media_temp_dir' = [media_temp_dir EXCEPT ![t] = Cleanup(media_temp_dir[t])]
    /\ End(t, "rolled_back")
    /\ UNCHANGED <<settings, dedup_keys, reserved_keys, ghostVars, harnessVars>>

Next ==
    \/ \E t \in Tasks, msg \in MsgPool : Receive(t, msg)
    \/ \E t \in Tasks, text \in RewriteTexts : RewriteReturn(t, text)
    \/ \E t \in Tasks, outcome \in {"path", "none", "raises"}, readable \in BOOLEAN :
          DownloadReturn(t, outcome, readable)
    \/ \E t \in Tasks : Acquire(t)
    \/ \E t \in Tasks : Gate(t)
    \/ \E t \in Tasks, ok \in BOOLEAN : SendFileReturn(t, ok)
    \/ \E t \in Tasks, ok \in BOOLEAN : SendMessageReturn(t, ok)
    \/ \E t \in Tasks : RollbackAcquire(t)
    \/ \E t \in Tasks : Rollback(t)

Spec == Init /\ [][Next]_vars

\* what task t does after process_message was called with its message: the
\* external calls return or raise, the guard is taken and left
Step(t) ==
    \/ \E text \in RewriteTexts : RewriteReturn(t, text)
    \/ \E outcome \in {"path", "none", "raises"}, readable \in BOOLEAN :
          DownloadReturn(t, outcome, readable)
    \/ Acquire(t)
    \/ Gate(t)
    \/ \E ok \in BOOLEAN : SendFileReturn(t, ok)
    \/ \E ok \in BOOLEAN : SendMessageReturn(t, ok)
    \/ RollbackAcquire(t)
    \/ Rollback(t)

\* the event loop runs every task that can go on, and every awaited external
\* call comes back; nothing obliges a message to arrive
\* the deployment the progress of the items is followed in: gateway configured,
\* media fingerprints on, the default min_score, no persisted file yet
FairSettings == [dry_run : BOOLEAN, gateway : {TRUE}, dedup_media : {TRUE}, min_score : {2}]

FairInit == Init /\ settings \in FairSettings /\ max_items = MaxCap /\ ~file.exists

FairSpec == FairInit /\ [][Next]_vars /\ \A t \in Tasks : WF_vars(Step(t))

\* ----------------------------------------------- the store on its own
\* The DedupStore API driven directly: any sequence of add, remove and flush,
\* and the two guarded sections of process_message (reserve, rollback), on a
\* store built from a persisted file.  last records the call just made and the
\* store before it; added records the keys added so far while the store started
\* empty and every call was an add of a new key.

TxtKeys == {k \in KeyPool : k[1] = "txt"}

ImgKeys == {k \in KeyPool : k[1] = "img"}

\* the key lists process_message builds: a text key, a media key, or both
KeySeqs == {<<k>> : k \in KeyPool} \cup {<<t, m>> : t \in TxtKeys, m \in ImgKeys}

\* files edited by hand: a repeated line, blank lines, padded lines and no
\* final line break
EditedFiles ==
    { [exists |-> TRUE, content |-> <<K2, NL, K1, NL, K1, NL>>],
      [exists |-> TRUE, content |-> <<K1, NL, NL, NL>>],
      [exists |-> TRUE, content |-> <<SP, K1, SP, NL, K2>>] }

DefaultSettings ==
    [dry_run |-> FALSE, gateway |-> FALSE, dedup_media |-> FALSE, min_score |-> 2]

StoreInitFrom(files) ==
    /\ settings = DefaultSettings
    /\ \E f \in files, m \in 0..MaxCap :
          LET st == DedupStore(f, m)
          IN  /\ items = st.items
              /\ keyset = st.keyset
              /\ dirty = st.dirty
              /\ max_items = st.max_items
              /\ file = st.file
              /\ loaded = st.keyset
              /\ added = [ok |-> st.items = <<>>, keys |-> <<>>]
    /\ TaskInit
    /\ SteadyInit
    /\ last = NoLast
    /\ nops = 0

StoreInit == StoreInitFrom(StoreFiles)

AnyFileInit == StoreInitFrom(StoreFiles \cup EditedFiles)

Called(op, keys, base) ==
    /\ UNCHANGED <<filterVars, runVars>>
    /\ nops' = nops + 1
    /\ last' = [op |-> op, keys |-> keys, pre |-> St, prev_op |-> last.op,
                prev_keys |-> last.keys, base |-> base]

AddOp(k) ==
    /\ nops < MaxOps
    /\ SetStore(add(St, k))
    /\ evicted' = evicted \cup Popped(St, k)
    /\ Called("add", <<k>>, <<>>)
    /\ added' = IF added.ok /\ k \notin Range(added.keys)
                THEN [added EXCEPT !.keys = Append(added.keys, k)]
                ELSE NoAdded
    /\ UNCHANGED <<settings, dedup_lock, taskVars, calls, sent, published, loaded>>

RemoveOp(k) ==
    /\ nops < MaxOps
    /\ SetStore(remove(St, k))
    /\ Called("remove", <<k>>, <<>>)
    /\ added' = NoAdded
    /\ UNCHANGED <<settings, dedup_lock, taskVars, ghostVars>>

FlushOp ==
    /\ nops < MaxOps
    /\ SetStore(flush(St))
    /\ Called("flush", <<>>, <<>>)
    /\ UNCHANGED <<settings, dedup_lock, taskVars, ghostVars, added>>

\* app.py 185-199: the keys pass the gate and are reserved
ReserveOp(keys) ==
    /\ nops < MaxOps
    /\ duplicate_key(St, keys) = None
    /\ SetStore(reserve(St, keys))
    /\ evicted' = evicted \cup PoppedAll(St, keys)
    /\ Called("reserve", keys, <<>>)
    /\ added' = NoAdded
    /\ UNCHANGED <<settings, dedup_lock, taskVars, calls, sent, published, loaded>>

\* app.py 210-214: the reservation just made is rolled back
RollbackOp ==
    /\ nops < MaxOps
    /\ last.op = "reserve"
    /\ SetStore(rollback(St, last.keys))
    /\ Called("rollback", last.keys, last.pre.items)
    /\ added' = NoAdded
    /\ UNCHANGED <<settings, dedup_lock, taskVars, ghostVars>>

StoreNext ==
    \/ \E k \in KeyPool : AddOp(k)
    \/ \E k \in KeyPool : RemoveOp(k)
    \/ FlushOp
    \/ \E keys \in KeySeqs : ReserveOp(keys)
    \/ RollbackOp

StoreSpec == StoreInit /\ [][StoreNext]_vars

AnyFileSpec == AnyFileInit /\ [][StoreNext]_vars

\* a store in long use: no bound on the number of calls.  The record of the
\* last call keeps the operation, its key and the store before it.
LongRunInit == StoreInitFrom({NoFile})

LongCalled(op, k) ==
    /\ last' = [NoLast EXCEPT !.op = op, !.keys = <<k>>, !.pre = St]
    /\ UNCHANGED <<settings, dedup_lock, taskVars, ghostVars, added, nops,
                   filterVars, runVars>>

\* dedup_store.add(k)
AddCall(k) ==
    /\ SetStore(add(St, k))
    /\ LongCalled("add", k)

\* dedup_store.remove(k)
RemoveCall(k) ==
    /\ SetStore(remove(St, k))
    /\ LongCalled("remove", k)

\* dedup_store.flush()
FlushCall ==
    /\ SetStore(flush(St))
    /\ LongCalled("flush", None)

LongRunNext ==
    \/ \E k \in KeyPool : AddCall(k)
    \/ \E k \in KeyPool : RemoveCall(k)
    \/ FlushCall

LongRunSpec == LongRunInit /\ [][LongRunNext]_vars

\* ---------------------------------------------------------------- run()
\* Startup and backfill: resolve_sources, add_event_handler, process_backfill,
\* run_until_disconnected.  run_pc is "resolve" (in the loop of
\* resolve_sources), "fetch" (awaiting iter_messages for resolved entity
\* source_i), "items" (in the loop over reversed(recent_messages)), "live"
\* (in run_until_disconnected), or how run() ended: "fatal" (no source
\* resolved), "resolve_raised", "backfill_raised" (an exception left run()).
\* Task 1 runs the backfilled items, one call of process_message after the
\* other; the other tasks run live events.  The return of one backfilled call
\* and the next call are two steps of the model.

\* largest BACKFILL_LIMIT_PER_CHAT
MaxLimit == 5

\* a message of a history: date is "in" (msg_date >= since_utc), "old"
\* (msg_date < since_utc) or "none" (no date)
Item(msg, date) == [msg |-> msg, date |-> date]

\* a configured source: kind is "entity" (get_input_entity and get_entity
\* answer), "peer" (they raise; the source is a -100... channel id) or "name"
\* (they raise; parse_channel_id gives None); in_dialogs: the dialogs hold the
\* channel; history: what iter_messages yields, newest first
Source(kind, in_dialogs, history) ==
    [kind |-> kind, in_dialogs |-> in_dialogs, history |-> history]

HistoryA ==
    << Item(Msg(<<"a", "b", "c", "d", "e">>, MediaX, <<990>>, <<30>>), "in"),
       Item(Msg(<<"A", " ", " ", "b">>, None, <<990>>, <<30>>), "none"),
       Item(Msg(<<" ", "a", " ", "b">>, MediaX, <<990>>, <<30>>), "in"),
       Item(Msg(<<"A", " ", " ", "b">>, None, <<990>>, <<30>>), "old"),
       Item(Msg(<<"a", "b", "c", "d", "e">>, MediaX, <<990>>, <<30>>), "in") >>

HistoryB == << Item(Msg(<<"A", " ", " ", "b">>, None, <<990>>, <<30>>), "in") >>

SourceLists ==
    { << Source("entity", FALSE, HistoryA), Source("entity", FALSE, HistoryB) >>,
      << Source("peer", TRUE, HistoryB), Source("entity", FALSE, HistoryA) >>,
      << Source("peer", FALSE, HistoryA), Source("entity", FALSE, HistoryB) >>,
      << Source("name", FALSE, HistoryA), Source("peer", TRUE, HistoryB) >>,
      << Source("name", FALSE, HistoryA), Source("peer", FALSE, HistoryB) >> }

RunSettings ==
    [dry_run : BOOLEAN, gateway : BOOLEAN, dedup_media : {FALSE}, min_score : {2}]

LiveTasks == Tasks \ {1}

RunInit ==
    /\ settings \in RunSettings
    /\ LET st == DedupStore(NoFile, MaxCap)
       IN  /\ items = st.items
           /\ keyset = st.keyset
           /\ dirty = st.dirty
           /\ max_items = st.max_items
           /\ file = st.file
           /\ loaded = st.keyset
    /\ TaskInit
    /\ last = NoLast
    /\ added = NoAdded
    /\ nops = 0
    /\ run_pc = "resolve"
    /\ raw_sources \in SourceLists
    /\ backfill_hours \in {0, 1}
    /\ backfill_limit_per_chat \in {2, MaxLimit}
    /\ source_i = 1
    /\ dialogs_cache = FALSE
    /\ resolved_entities = <<>>
    /\ handler = FALSE
    /\ recent_messages = <<>>
    /\ handed = <<>>

\* app.py 281-286 and process_backfill up to its first await: no source resolved
\* is fatal; otherwise the handler is registered and the backfill starts,
\* unless backfill_hours <= 0
StartBackfill(resolved) ==
    IF resolved = <<>>
    THEN /\ run_pc' = "fatal"
         /\ UNCHANGED <<handler, source_i>>
    ELSE /\ handler' = TRUE
         /\ run_pc' = IF backfill_hours <= 0 THEN "live" ELSE "fetch"
         /\ source_i' = 1

\* resolve_sources, one pass of the loop: get_input_entity / get_entity, on an
\* error the dialogs (listed once; iter_dialogs may raise), else the source is
\* skipped
ResolveSource(dialogs_ok) ==
    /\ run_pc = "resolve"
    /\ LET src      == raw_sources[source_i]
           lists    == src.kind = "peer" /\ ~dialogs_cache
           entity   == src.kind = "entity" \/ (src.kind = "peer" /\ src.in_dialogs)
           resolved == IF entity THEN Append(resolved_entities, source_i)
                       ELSE resolved_entities
       IN  IF lists /\ ~dialogs_ok
           THEN /\ run_pc' = "resolve_raised"
                /\ UNCHANGED <<source_i, dialogs_cache, resolved_entities, handler>>
           ELSE /\ dialogs_cache' = (dialogs_cache \/ lists)
                /\ resolved_entities' = resolved
                /\ IF source_i < Len(raw_sources)
                   THEN /\ source_i' = source_i + 1
                        /\ UNCHANGED <<run_pc, handler>>
                   ELSE StartBackfill(resolved)
    /\ UNCHANGED <<settings, storeVars, dedup_lock, taskVars, ghostVars, last, added,
                   nops, filterVars, raw_sources, backfill_hours,
                   backfill_limit_per_chat, recent_messages, handed>>

RECURSIVE Recent(_, _, _)
\* app.py 251-262: of the first limit messages of the history, from position i
\* on: those with a date, up to the first one older than since_utc
Recent(history, i, limit) ==
    IF i > Len(history) \/ i > limit THEN <<>>
    ELSE IF history[i].date = "none" THEN Recent(history, i + 1, limit)
    ELSE IF history[i].date = "old" THEN <<>>
    ELSE <<i>> \o Recent(history, i + 1, limit)

\* a loop over recent_messages as fetched
NotReversed(s) == s

\* reversed(recent_messages)
Reversed(s) == [i \in 1..Len(s) |-> s[Len(s) + 1 - i]]

\* the for loop of process_backfill goes to the next entity, or process_backfill
\* returns and run_until_disconnected is awaited
NextEntity ==
    IF source_i < Len(resolved_entities)
    THEN source_i' = source_i + 1 /\ run_pc' = "fetch"
    ELSE source_i' = source_i /\ run_pc' = "live"

\* app.py 251-262: iter_messages for the entity returns its messages, or raises
FetchHistory(ok) ==
    /\ run_pc = "fetch"
    /\ IF ~ok
       THEN /\ run_pc' = "backfill_raised"
            /\ UNCHANGED <<source_i, recent_messages>>
       ELSE LET history == raw_sources[resolved_entities[source_i]].history
                recent  == Reversed(Recent(history, 1, backfill_limit_per_chat))
            IN  /\ recent_messages' = recent
                /\ IF recent = <<>> THEN NextEntity
                   ELSE run_pc' = "items" /\ source_i' = source_i
    /\ UNCHANGED <<settings, storeVars, dedup_lock, taskVars, ghostVars, last, added,
                   nops, filterVars, raw_sources, backfill_hours,
                   backfill_limit_per_chat, dialogs_cache, resolved_entities,
                   handler, handed>>

\* app.py 264-265: await process_message(msg, source_title) for the next message
BackfillCall ==
    /\ run_pc = "items"
    /\ recent_messages # <<>>
    /\ Scoring(1, raw_sources[resolved_entities[source_i]].history[Head(recent_messages)].msg)
    /\ recent_messages' = Tail(recent_messages)
    /\ handed' = Append(handed, <<resolved_entities[source_i], Head(recent_messages)>>)
    /\ UNCHANGED <<run_pc, raw_sources, backfill_hours, backfill_limit_per_chat,
                   source_i, dialogs_cache, resolved_entities, handler>>

\* process_message returns to the loop, or its exception leaves process_backfill
\* and run()
BackfillReturn ==
    /\ run_pc = "items"
    /\ pc[1] \in {"rejected", "raised", "duplicate", "dry_run", "published", "failed",
                  "rolled_back"}
    /\ IF pc[1] \in {"raised", "failed", "rolled_back"}
       THEN /\ run_pc' = "backfill_raised"
            /\ UNCHANGED <<taskVars, calls, sent, published, source_i>>
       ELSE /\ pc' = [pc EXCEPT ![1] = "idle"]
            /\ message' = [message EXCEPT ![1] = NoMsg]
            /\ media_temp_dir' = [media_temp_dir EXCEPT ![1] = "none"]
            /\ dedup_keys' = [dedup_keys EXCEPT ![1] = <<>>]
            /\ reserved_keys' = [reserved_keys EXCEPT ![1] = <<>>]
            /\ calls' = calls \ {1}
            /\ published' = published \ {1}
            /\ sent' = {x \in sent : x[1] # 1}
            /\ UNCHANGED <<composed_text, downloaded_media>>
            /\ IF recent_messages = <<>> THEN NextEntity
               ELSE UNCHANGED <<run_pc, source_i>>
    /\ UNCHANGED <<settings, storeVars, dedup_lock, evicted, loaded, last, added, nops,
                   filterVars, raw_sources, backfill_hours, backfill_limit_per_chat,
                   dialogs_cache, resolved_entities, handler, recent_messages, handed>>

RunNext ==
    \/ \E dialogs_ok \in BOOLEAN : ResolveSource(dialogs_ok)
    \/ \E ok \in BOOLEAN : FetchHistory(ok)
    \/ BackfillCall
    \/ BackfillReturn
    \/ \E t \in LiveTasks, msg \in MsgPool : Receive(t, msg)
    \/ \E t \in Tasks, text \in RewriteTexts : RewriteReturn(t, text)
    \/ \E t \in Tasks, outcome \in {"path", "none", "raises"}, readable \in BOOLEAN :
          DownloadReturn(t, outcome, readable)
    \/ \E t \in Tasks : Acquire(t)
    \/ \E t \in Tasks : Gate(t)
    \/ \E t \in Tasks, ok \in BOOLEAN : SendFileReturn(t, ok)
    \/ \E t \in Tasks, ok \in BOOLEAN : SendMessageReturn(t, ok)
    \/ \E t \in Tasks : RollbackAcquire(t)
    \/ \E t \in Tasks : Rollback(t)

RunSpec == RunInit /\ [][RunNext]_vars

\* ------------------------------------------------ the filter on its own
\* OfferFilter.match applied once to a message, for every configured MIN_SCORE
\* from below zero to above the highest score match can give (1 + 4 + 3).

MaxMinScore == 9

MinScores == (0 - 1)..MaxMinScore

\* what price_pattern finds: nothing, one price at and around the band limits,
\* two prices
PricePool == { <<>>, <<499>>, <<500>>, <<1000>>, <<2000>>, <<2001>>, <<1500, 400>> }

\* what discount_pattern finds
DiscountPool == { <<>>, <<50>>, <<51>>, <<80>>, <<81>>, <<30, 90>> }

ScorePool ==
    [text : {<<>>, <<"a">>}, media : {None}, prices : PricePool,
     discounts : DiscountPool, include_hits : {{}, {"k"}}, exclude_hit : BOOLEAN]

FilterInit ==
    /\ settings \in {[DefaultSettings EXCEPT !.min_score = m] : m \in MinScores}
    /\ LET st == DedupStore(NoFile, MaxCap)
       IN  /\ items = st.items
           /\ keyset = st.keyset
           /\ dirty = st.dirty
           /\ max_items = st.max_items
           /\ file = st.file
           /\ loaded = st.keyset
    /\ TaskInit
    /\ SteadyInit
    /\ last = NoLast
    /\ added = NoAdded
    /\ nops = 0

\* offer_filter.match(text)
Score(msg) ==
    /\ scored = NoScore
    /\ scored' = [msg |-> msg, result |-> match(msg, settings.min_score)]
    /\ UNCHANGED <<settings, storeVars, dedup_lock, taskVars, ghostVars,
                   last, added, nops, runVars>>

FilterNext == \E msg \in ScorePool : Score(msg)

FilterSpec == FilterInit /\ [][FilterNext]_vars

\* ------------------------------------------------------------ properties

Terminal == {"rejected", "raised", "duplicate", "dry_run", "published", "failed",
             "rolled_back"}

AllDone == \A t \in Tasks : pc[t] \in Terminal

\* the tasks whose dedup keys have been built
Keyed == {t \in Tasks : pc[t] \notin {"idle", "rewrite", "download", "rejected", "raised"}}

KeysOf(t) == Range(dedup_keys[t])

SameKeys == \A t \in Keyed, u \in Keyed : KeysOf(t) = KeysOf(u)

OnePublishedRestDuplicate ==
    \E t \in Keyed :
        /\ pc[t] = "published"
        /\ \A u \in Keyed \ {t} : pc[u] = "duplicate" /\ u \notin calls

\* the setting of C1: publishing is on, the store keeps at least one key, and the
\* items carry keys none of which was in the store beforehand
C1_Setting ==
    /\ ~settings.dry_run
    /\ max_items >= 1
    /\ \A t \in Keyed : KeysOf(t) # {} /\ KeysOf(t) \cap loaded = {}

NoPublishRaised == \A t \in Keyed : pc[t] \notin {"failed", "rolled_back"}

C3_RollbackBeforeRaise ==
    [][\A t \in Tasks :
          /\ (pc[t] # "rolled_back" /\ pc'[t] = "rolled_back") =>
                /\ \A k \in Range(reserved_keys[t]) :
                      k \notin keyset' /\ k \notin Range(file'.content)
                /\ dirty' = 0
                /\ file'.content = (IF items' = <<>> THEN <<>>
                                    ELSE JoinLines(items') \o <<NL>>)
          /\ (pc[t] # "failed" /\ pc'[t] = "failed") => reserved_keys[t] = <<>>
      ]_vars

C3_Witness ==
    \E t \in Tasks : pc[t] = "rolled_back" /\ Len(reserved_keys[t]) = 2

\* C4 as stated (for max_items >= 1): a reservation followed at once by its
\* rollback leaves the ordered sequence as it was before the reservation.
C4_RollbackRestoresSequence ==
    (last.op = "rollback" /\ max_items >= 1) => items = last.base

\* C5: an item at the gate with any of its keys in the store ends as a
\* duplicate, leaving the store (sequence, set, dirty counter, file) as it was,
\* and publish is never called for a duplicate.
C5_DuplicateLeavesStore ==
    /\ [](\A t \in Tasks :
            pc[t] = "duplicate" =>
               t \notin calls /\ t \notin published /\ reserved_keys[t] = <<>>
               /\ \A kind \in {"file", "text"} : <<t, kind>> \notin sent)
    /\ [][\A t \in Tasks :
            (/\ pc[t] = "locked"
             /\ pc'[t] # "locked"
             /\ \E k \in KeysOf(t) : k \in keyset) =>
                /\ pc'[t] = "duplicate"
                /\ UNCHANGED <<storeVars, calls, sent, published>>
         ]_vars

C5_Witness ==
    \E t \in Tasks :
        /\ pc[t] = "duplicate"
        /\ \E k \in KeysOf(t) : k \in keyset
        /\ \E k \in KeysOf(t) : k \notin keyset

DryRunGate(t) == settings.dry_run /\ pc[t] = "locked" /\ pc'[t] = "dry_run"

DryRunQuiet ==
    /\ [](settings.dry_run => calls = {} /\ sent = {} /\ published = {})
    /\ [][settings.dry_run /\ storeVars' # storeVars => \E t \in Tasks : DryRunGate(t)]_vars

\* C6 as stated: in dry-run mode an item that passes the gate has its keys in
\* the store and in the flushed file, publish is never called, and the store
\* changes by reservations only.
C6_DryRunReserves ==
    /\ DryRunQuiet
    /\ [][\A t \in Tasks :
            DryRunGate(t) =>
                /\ \A k \in KeysOf(t) : k \in keyset' /\ k \in Range(file'.content)
                /\ dirty' = 0
         ]_vars

\* C6 amended: the same, the keys being in the store and the file when
\* max_items is at least the number of keys of the item.
C6_DryRunReservesWithinCapacity ==
    /\ DryRunQuiet
    /\ [][\A t \in Tasks :
            DryRunGate(t) =>
                /\ max_items >= Len(dedup_keys[t]) =>
                      \A k \in KeysOf(t) : k \in keyset' /\ k \in Range(file'.content)
                /\ dirty' = 0
                /\ reserved_keys'[t] = dedup_keys[t]
         ]_vars

C6_Witness ==
    \E t \in Tasks, u \in Tasks :
        /\ settings.dry_run
        /\ pc[t] = "dry_run" /\ Len(reserved_keys[t]) = 2
        /\ pc[u] = "duplicate" /\ KeysOf(u) \cap KeysOf(t) # {}

\* C7 as stated: the store never holds more than max_items fingerprints.
C7_SizeWithinCapacity == Len(items) <= max_items

\* C8: after max_items + n distinct keys (n > 0) were added one at a time to an
\* empty store, it holds max_items keys: the n earliest are gone, the later ones
\* are all there, in the order they were added.
C8_FifoEviction ==
    LET n == Len(added.keys) - max_items
    IN  (added.ok /\ n > 0) =>
           /\ Len(items) = max_items
           /\ Cardinality(keyset) = max_items
           /\ \A i \in 1..n : ~contains(St, added.keys[i])
           /\ \A i \in (n + 1)..Len(added.keys) : contains(St, added.keys[i])
           /\ items = SubSeq(added.keys, n + 1, Len(added.keys))

C8_Witness ==
    /\ added.ok
    /\ max_items >= 1
    /\ Len(added.keys) >= max_items + 2

\* C9 as stated (for max_items >= 1): the set and the sequence hold the same
\* keys, and no key is in the sequence twice.
C9_SetMatchesSequence ==
    max_items >= 1 =>
    /\ keyset = Range(items)
    /\ \A i \in 1..Len(items), j \in 1..Len(items) : items[i] = items[j] => i = j

SecondAdd == last.op = "add" /\ last.prev_op = "add" /\ last.prev_keys = last.keys

AddIdempotent ==
    /\ last.op = "add" => contains(St, last.keys[1])
    /\ SecondAdd =>
          /\ Len(items) = Len(last.pre.items)
          /\ items = last.pre.items
          /\ dirty = last.pre.dirty
          /\ file = last.pre.file

\* C10 as stated: after add(k) the store contains k, and a second add(k) leaves
\* the size, the sequence, the dirty counter and the file as they were.
C10_AddIdempotent == AddIdempotent

\* C10 amended: the same, for max_items >= 1.
C10_AddIdempotentPositiveCapacity == max_items >= 1 => AddIdempotent

C10_Witness == SecondAdd /\ max_items >= 1 /\ Len(items) = max_items

\* the keys a persisted file lists, in file order
FileEntries(f) == SeqFilter(f.content, {NL, SP})

\* the values of the lines of a persisted file
FileLines(f) ==
    [i \in 1..Len(splitlines(f.content)) |-> LineValue(splitlines(f.content)[i])]

Min(a, b) == IF a <= b THEN a ELSE b

\* C11 as stated: a store constructed from a file of n entries holds exactly
\* the last min(n, max_items) entries, in file order; a missing file gives an
\* empty store.
C11_LoadKeepsLast ==
    nops = 0 =>
        LET entries == FileEntries(file)
            n       == Len(entries)
            k       == Min(n, max_items)
        IN  /\ items = SubSeq(entries, n - k + 1, n)
            /\ keyset = Range(items)

\* C12: after flush the dirty counter is 0 and the file holds the sequence, one
\* key per line, oldest first, and nothing else; a store constructed from that
\* file with the same max_items has the same sequence.
C12_FlushRoundTrip ==
    last.op = "flush" =>
        /\ dirty = 0
        /\ file.exists
        /\ FileLines(file) = items
        /\ items = <<>> => file.content = <<>>
        /\ DedupStore(file, max_items).items = items
        /\ items = last.pre.items

C12_Witness ==
    /\ last.op = "flush"
    /\ last.pre.dirty > 0
    /\ items # <<>>
    /\ Len(FileEntries(last.pre.file)) > Len(items)
    /\ Range(FileEntries(last.pre.file)) \ Range(items) # {}

\* C13 as stated: the rewrite capability is called for an item only once its
\* fingerprints are computed and reserved.
C13_RewriteAfterReservation ==
    \A t \in Tasks :
        pc[t] = "rewrite" => dedup_keys[t] # <<>> /\ reserved_keys[t] = dedup_keys[t]

\* C14 as stated: no item that has ended, however it ended, leaves its
\* temporary directory unreleased.
C14_TempStorageReleased ==
    \A t \in Tasks : pc[t] \in Terminal => media_temp_dir[t] # "open"

\* C17: the step that scores a message as not interesting ends the item as
\* rejected and changes nothing else: no rewrite call, no temporary directory
\* or download, no lock, no store change, no publish call; and a rejected item
\* stays as it is.
C17_RejectedDoesNothing ==
    /\ [][\A t \in Tasks, msg \in MsgPool :
            (Receive(t, msg) /\ ~match(msg, settings.min_score).is_interesting) =>
                /\ pc'[t] = "rejected"
                /\ UNCHANGED <<storeVars, dedup_lock, ghostVars, composed_text,
                               media_temp_dir, downloaded_media, dedup_keys,
                               reserved_keys>>
         ]_vars
    /\ [][\A t \in Tasks :
            pc[t] = "rejected" =>
                /\ pc'[t] = "rejected"
                /\ dedup_lock' # t
                /\ media_temp_dir'[t] = "none"
                /\ dedup_keys'[t] = <<>> /\ reserved_keys'[t] = <<>>
                /\ t \notin calls' /\ t \notin published'
         ]_vars

C17_Witness ==
    \E t \in Tasks :
        /\ pc[t] = "rejected"
        /\ settings.gateway /\ ~settings.dry_run
        /\ Strip(message[t].text) # <<>>
        /\ message[t].media # None

IsScored == scored # NoScore

\* C19 as stated: for every text and every min_score, is_interesting is true
\* exactly when score >= min_score.
C19_InterestingIffScore ==
    IsScored =>
        (scored.result.is_interesting <=> scored.result.score >= settings.min_score)

\* C19 amended: the same for a non-empty text without an exclude keyword; an
\* empty text and a text with an exclude keyword are not interesting, with
\* score 0, whatever min_score is.
C19_InterestingIffScoreOnceScored ==
    IsScored =>
        IF scored.msg.text = <<>> \/ scored.msg.exclude_hit
        THEN ~scored.result.is_interesting /\ scored.result.score = 0
        ELSE scored.result.is_interesting <=> scored.result.score >= settings.min_score

C19_Witness ==
    /\ IsScored
    /\ scored.msg.text # <<>> /\ ~scored.msg.exclude_hit
    /\ scored.result.score = settings.min_score
    /\ scored.result.score >= 3
    /\ scored.result.is_interesting

\* C20 as stated: whenever no task holds dedup_lock, the persisted file lists
\* exactly the sequence the store holds in memory.
C20_FileMatchesSequence == dedup_lock = 0 => FileLines(file) = items

\* C15 as stated: no failure during the backfill of a source (iter_messages
\* raising, process_message raising for a backfilled item) ends run(): the
\* other sources are still backfilled and run_until_disconnected is entered.
C15_BackfillFailureIsolated == run_pc # "backfill_raised"

\* C16: the backfilled items of one source are handed to process_message
\* oldest first (a later call has a smaller position in the newest-first
\* history), each lies within the cap, has a date inside the window and comes
\* before the first message older than the window, none is handed over with
\* backfill_hours <= 0, and an item is handed over only when no other
\* backfilled item is in progress.
C16_BackfillOldestFirst ==
    /\ [](\A i \in 1..Len(handed), j \in 1..Len(handed) :
             (i < j /\ handed[i][1] = handed[j][1]) => handed[i][2] > handed[j][2])
    /\ [](\A i \in 1..Len(handed) :
             LET history == raw_sources[handed[i][1]].history
                 n       == handed[i][2]
             IN  /\ n <= backfill_limit_per_chat
                 /\ history[n].date = "in"
                 /\ \A m \in 1..n : history[m].date # "old")
    /\ [](backfill_hours <= 0 => handed = <<>>)
    /\ [][handed' # handed =>
            /\ pc[1] = "idle" /\ pc'[1] # "idle"
            /\ Len(handed') = Len(handed) + 1
            /\ \A t \in LiveTasks : pc'[t] = pc[t]
         ]_vars

C16_Witness ==
    /\ run_pc = "live"
    /\ Len(handed) >= 3
    /\ handed[1][1] = handed[2][1]
    /\ Len(raw_sources[handed[1][1]].history) > backfill_limit_per_chat - 1
    /\ \E t \in LiveTasks : pc[t] # "idle"

\* C18 as stated: once resolve_sources is over, every source that get_entity
\* answers is resolved whatever the other sources are, and the handler is
\* registered (and the backfill started) exactly when a source was resolved;
\* otherwise run() has failed as fatal with no handler registered and no item
\* processed.
C18_StartsIffSourceResolved ==
    run_pc # "resolve" =>
        /\ \A i \in 1..Len(raw_sources) :
              raw_sources[i].kind = "entity" => i \in Range(resolved_entities)
        /\ handler <=> resolved_entities # <<>>
        /\ ~handler =>
              /\ run_pc = "fatal"
              /\ handed = <<>>
              /\ \A t \in Tasks : pc[t] = "idle"

\* the keys of a finished rollback are gone from the store and from its file
Forgotten(t) ==
    /\ \A i \in 1..Len(reserved_keys[t]) :
          /\ ~contains(St, reserved_keys[t][i])
          /\ ~contains(DedupStore(file, max_items), reserved_keys[t][i])
    /\ duplicate_key(St, dedup_keys[t]) = None

\* C21: with media and a text longer than the caption limit the file is sent
\* first and the rest of the text second; when the file went out and the
\* follow-up text send raises, the reservations are rolled back: the keys of
\* the content whose file is already at the destination leave the store and
\* its file, and the same keys pass the duplicate gate again
C21_TailFailureRollsBack ==
    /\ [](\A t \in Tasks : pc[t] = "send_tail" =>
             /\ downloaded_media[t]
             /\ Len(composed_text[t]) > MEDIA_CAPTION_LIMIT
             /\ <<t, "file">> \in sent /\ <<t, "text">> \notin sent
             /\ reserved_keys[t] # <<>>)
    /\ [][\A t \in Tasks :
            /\ (pc[t] = "send_file" /\ <<t, "file">> \in sent'
                 /\ Len(composed_text[t]) > MEDIA_CAPTION_LIMIT)
                => pc'[t] = "send_tail"
            /\ (pc[t] = "send_tail" /\ pc'[t] # "send_tail")
                => IF <<t, "text">> \in sent' THEN pc'[t] = "published"
                   ELSE pc'[t] = "rollback_lock" /\ reserved_keys'[t] # <<>>
            /\ (pc[t] = "rollback_lock" /\ pc'[t] # "rollback_lock")
                => pc'[t] = "rollback"
            /\ (pc[t] = "rollback" /\ pc'[t] # "rollback")
                => pc'[t] = "rolled_back" /\ Forgotten(t)']_vars

\* the file of one item went out, its tail failed and it was rolled back; a
\* second item with the same keys then passed the gate and sent its file too
C21_Witness ==
    \E t \in Tasks : \E u \in Tasks \ {t} :
        /\ max_items = MaxCap
        /\ pc[t] = "rolled_back" /\ <<t, "file">> \in sent
        /\ <<t, "text">> \notin sent
        /\ reserved_keys[t] # <<>>
        /\ dedup_keys[u] = dedup_keys[t]
        /\ pc[u] = "published" /\ <<u, "file">> \in sent

\* the ends the item life cycle names
NamedEnds == {"rejected", "duplicate", "dry_run", "published", "rolled_back"}

\* C22 as stated: every item handed to process_message ends as rejected,
\* duplicate, handled in dry run, committed or rolled back
C22_EveryItemEndsNamed ==
    \A t \in Tasks : (pc[t] # "idle") ~> (pc[t] \in NamedEnds)

\* C22, the part that holds: every item handed to process_message ends, in one
\* of the named ends or by the exception of a download, or of a publish with
\* nothing reserved; an ended item stays ended; the guard is held only inside
\* the gate and the rollback and the step that leaves either releases it, so
\* that no task waits for it forever
C22_EveryItemEnds ==
    /\ \A t \in Tasks : (pc[t] # "idle") ~> (pc[t] \in Terminal)
    /\ [](\A t \in Tasks :
             /\ dedup_lock = t <=> pc[t] \in {"locked", "rollback"}
             /\ pc[t] \in {"raised", "failed"} => reserved_keys[t] = <<>>)
    /\ [][\A t \in Tasks :
            /\ pc[t] \in Terminal => pc'[t] = pc[t]
            /\ (pc[t] \in {"locked", "rollback"} /\ pc'[t] # pc[t])
                => dedup_lock' = 0 /\ pc'[t] \notin {"lock", "rollback_lock"}]_vars

\* every item has ended and the guard is free: one ended by the exception of
\* its download, the other took the guard twice and was rolled back
C22_Witness ==
    /\ AllDone /\ dedup_lock = 0
    /\ \E t \in Tasks : \E u \in Tasks \ {t} :
          /\ pc[t] = "raised" /\ media_temp_dir[t] = "open"
          /\ pc[u] = "rolled_back" /\ reserved_keys[u] # <<>>

\* C23: once a store operation has completed, the number of dirty operations
\* since the last flush is below the threshold of 25
C23_DirtyBelowThreshold == dirty < FlushThreshold

\* an add brought the count to the threshold, flushed and reset it
C23_Witness ==
    /\ last.op = "add"
    /\ last.pre.dirty = FlushThreshold - 1
    /\ dirty = 0
    /\ FileLines(file) = items

\* minimum prices price_pattern can give (two to seven digits), at the ends of
\* the range and around the limits of the bands
BandPrices == {10, 499, 500, 501, 1000, 1001, 2000, 2001, 9999999}

\* what the price adds to the score of a message
PriceContribution(msg) ==
    match(msg, settings.min_score).score
        - match([msg EXCEPT !.prices = <<>>], settings.min_score).score

\* the message that was scored, with p as its only price
Priced(p) == [scored.msg EXCEPT !.prices = <<p>>]

\* the scored message has a price and is neither empty nor excluded
PriceCounts ==
    /\ IsScored
    /\ scored.msg.prices # <<>>
    /\ scored.msg.text # <<>> /\ ~scored.msg.exclude_hit

\* C24: the price contribution follows ascending bands (a lower minimum price
\* never contributes more than a higher one between 10 and 9999999), and a
\* price that contributes adds a reason tag with the tier name and the price
C24_PriceBandsAscending ==
    PriceCounts =>
        LET min_price == SeqMin(scored.msg.prices)
            own == scored.result.score
                       - match(Priced(min_price), settings.min_score).score
                       + PriceContribution(Priced(min_price))
        IN  /\ \A p \in BandPrices :
                  /\ p <= min_price => PriceContribution(Priced(p)) <= own
                  /\ p >= min_price => PriceContribution(Priced(p)) >= own
            /\ own # 0 =>
                  \E i \in 1..Len(scored.result.reasons) :
                      /\ scored.result.reasons[i].tag \in {"low_price", "mid_price"}
                      /\ scored.result.reasons[i].value = min_price

\* a message whose minimum price is 499 was scored: the price added 2, which
\* is more than the 1 a price of 500 adds
C24_Witness ==
    /\ PriceCounts
    /\ SeqMin(scored.msg.prices) = 499
    /\ scored.result.score = 2 + match([scored.msg EXCEPT !.prices = <<>>],
                                       settings.min_score).score
    /\ PriceContribution(Priced(500)) = 1

====
